---- MODULE Spec2Model ----
(***************************************************************************)
(* QueryCollectionService (query-collection.service.ts): a tree of query   *)
(* collections kept in a flat table by materialized paths, and its         *)
(* reconciliation with a remote service.                                    *)
(*                                                                         *)
(* Strings are sequences of one-character strings, so that template        *)
(* literals, startsWith, replace and split work on characters as they do   *)
(* in the source.  A collection id is a number or a string: [num, s] with  *)
(* s its decimal form (num) or its characters.                             *)
(***************************************************************************)
EXTENDS Integers, Sequences, FiniteSets, TLC

VARIABLES
  queryCollections,  \* storage.queryCollections, the table: a set of records keyed by id
  uuidCount,         \* how many ids uuid() has handed out
  moveCount,         \* how many times moveCollection was called
  now,               \* storage.now()
  user,              \* accountService.getUser() is non-empty
  serverCollections, \* the remote service: what api.getCollections() returns
  serverIdCount,     \* how many ids the remote service has handed out
  last,              \* the last completed operation: its arguments, outcome and remote calls
  prevCollections,   \* the table as it was when the last operation started
  tasks              \* the calls of createRemoteCollection and syncRemoteToLocal in flight

vars == <<queryCollections, uuidCount, moveCount, now, user, serverCollections,
          serverIdCount, last, prevCollections, tasks>>

----------------------------------------------------------------------------
(* Bounds *)

MaxCollections == 3    \* records in the table, Spec
MaxUuid == 4           \* ids uuid() hands out, Spec
MaxDepth == 2          \* ids in a parentPath
MaxMoves == 1          \* calls of moveCollection
MaxLocal == 2          \* records in the table, SyncSpec
MaxSyncUuid == 2       \* ids uuid() hands out, SyncSpec
MaxQueries == 1        \* queries in a collection
MaxServerIds == 2      \* ids the remote service hands out, SyncSpec
MaxSeedServerIds == 3  \* ids the remote service hands out, SeedSpec
MaxTasks == 2          \* calls in flight at once, AsyncSpec
MaxAsyncUuid == 6      \* ids uuid() hands out, AsyncSpec
MaxAsyncServerIds == 6 \* ids the remote service hands out, AsyncSpec

----------------------------------------------------------------------------
(* Strings *)

COLLECTION_PATH_SEPARATOR == <<"/">>

Digits == <<"0", "1", "2", "3", "4", "5", "6", "7", "8", "9">>

IsDigit(ch) == \E i \in 1..10 : Digits[i] = ch

\* s.startsWith(p)
StartsWith(s, p) == Len(p) <= Len(s) /\ SubSeq(s, 1, Len(p)) = p

\* s.indexOf(p), 1-based; 0 when p does not occur
IndexOf(s, p) ==
  LET hits == {i \in 1..(Len(s) - Len(p) + 1) : SubSeq(s, i, i + Len(p) - 1) = p}
  IN IF hits = {} THEN 0 ELSE CHOOSE i \in hits : \A j \in hits : i <= j

\* s.replace(p, r) with a string pattern: the first occurrence only
Replace(s, p, r) ==
  LET i == IndexOf(s, p)
  IN IF i = 0 THEN s
     ELSE SubSeq(s, 1, i - 1) \o r \o SubSeq(s, i + Len(p), Len(s))

\* s.split('/').pop(): what follows the last separator, all of s when there is none
LastSegment(s) ==
  LET seps == {i \in 1..Len(s) : <<s[i]>> = COLLECTION_PATH_SEPARATOR}
      k == IF seps = {} THEN 0 ELSE CHOOSE i \in seps : \A j \in seps : j <= i
  IN SubSeq(s, k + 1, Len(s))

----------------------------------------------------------------------------
(* Ids *)

NumId(s) == [num |-> TRUE, s |-> s]
StrId(s) == [num |-> FALSE, s |-> s]

\* `${id}`
IdStr(id) == id.s

\* undefined, for an optional string, id, timestamp, path
NoString == <<>>
NoId == StrId(<<"undefined">>)
NoTime == 0 - 1
NoPath == <<"undefined">>
NoServerId == NoString

\* a value of type CollectionID used as a condition: 0 and '' are falsy
Truthy(id) == id # NoId /\ id.s # <<>> /\ ~(id.num /\ id.s = <<"0">>)

\* uuid(): the n-th id handed out; all have the same length and none is numeric
uuid(n) == <<"u", Digits[(n \div 10) + 1], Digits[(n % 10) + 1]>>

RECURSIVE StripZeros(_)
StripZeros(s) ==
  IF Len(s) > 1 /\ s[1] = "0" THEN StripZeros(Tail(s)) ELSE s

\* Number(s) for a string of this alphabet, as the decimal form of the number;
\* NoString stands for NaN.  Number('') is 0.
NumberOf(s) ==
  IF s = <<>> THEN <<"0">>
  ELSE IF \A i \in 1..Len(s) : IsDigit(s[i]) THEN StripZeros(s)
  ELSE NoString

\* a probe that never finds another representation
NoAlternateCollectionID(collectionId) == StrId(<<>>)

getAlternateCollectionID(collectionId) ==
  IF collectionId.num THEN StrId(collectionId.s)
  ELSE LET n == NumberOf(collectionId.s)
       IN IF n = NoString THEN StrId(<<>>) ELSE NumId(n)

----------------------------------------------------------------------------
(* The table *)

\* the result of a lookup that finds nothing
NoCollection ==
  [id |-> NoId, title |-> "", parentPath |-> NoPath, serverId |-> NoServerId,
   queries |-> <<>>, created_at |-> NoTime, updated_at |-> NoTime]

\* storage.queryCollections.get(key)
TableGet(table, key) ==
  IF \E c \in table : c.id = key
  THEN CHOOSE c \in table : c.id = key
  ELSE NoCollection

getCollectionByID(table, collectionId) ==
  LET localCollection == TableGet(table, collectionId)
      id == IF localCollection = NoCollection
            THEN getAlternateCollectionID(collectionId)
            ELSE collectionId
  IN TableGet(table, id)

\* parentPath ?? ''
PathOrEmpty(c) == IF c.parentPath = NoPath THEN <<>> ELSE c.parentPath

getParentCollectionId(collection) ==
  IF collection.parentPath = NoPath THEN NoString
  ELSE LastSegment(collection.parentPath)

getParentCollection(table, collection) ==
  LET parentCollectionId == getParentCollectionId(collection)
  IN IF parentCollectionId # NoString
     THEN getCollectionByID(table, StrId(parentCollectionId))
     ELSE NoCollection

\* the loop of getAllParentCollections run for at most fuel passes: the parents
\* pushed so far, and whether the loop has returned
RECURSIVE ParentsWithin(_, _, _)
ParentsWithin(table, curCollection, fuel) ==
  LET parentCollection == getParentCollection(table, curCollection)
  IN IF parentCollection = NoCollection THEN [collections |-> <<>>, returned |-> TRUE]
     ELSE IF fuel = 0 THEN [collections |-> <<>>, returned |-> FALSE]
     ELSE LET rest == ParentsWithin(table, parentCollection, fuel - 1)
          IN [collections |-> <<parentCollection>> \o rest.collections,
              returned |-> rest.returned]

\* a chain of distinct records has at most as many parents as the table has
\* records: a loop that has not returned by then never returns
getAllParentCollections(table, collection) ==
  ParentsWithin(table, collection, Cardinality(table))

\* a path that names the parent alone
FlatParentPath(table, parentCollectionId) ==
  COLLECTION_PATH_SEPARATOR \o IdStr(parentCollectionId)

getSubcollectionParentPath(table, parentCollectionId) ==
  LET parentCollection == getCollectionByID(table, parentCollectionId)
  IN PathOrEmpty(parentCollection) \o COLLECTION_PATH_SEPARATOR \o IdStr(parentCollectionId)

\* where(id).equals(collectionId).or(id).equals(alternate).modify(changeCb)
updateCollectionByID(table, collectionId, changeCb(_)) ==
  LET alternateCollectionId == getAlternateCollectionID(collectionId)
  IN {IF c.id = collectionId \/ c.id = alternateCollectionId THEN changeCb(c) ELSE c :
        c \in table}

----------------------------------------------------------------------------
(* Order of toArray(): by the index queried, then by primary key.  IndexedDB
   keys order numbers before strings, numbers by value, strings by code unit. *)

CharCode(ch) ==
  IF ch = "/" THEN 47
  ELSE IF IsDigit(ch) THEN 47 + (CHOOSE i \in 1..10 : Digits[i] = ch)
  ELSE IF ch = "u" THEN 117
  ELSE IF ch = "s" THEN 115
  ELSE 120

RECURSIVE StrLess(_, _)
StrLess(a, b) ==
  IF b = <<>> THEN FALSE
  ELSE IF a = <<>> THEN TRUE
  ELSE IF a[1] # b[1] THEN CharCode(a[1]) < CharCode(b[1])
  ELSE StrLess(Tail(a), Tail(b))

\* decimal forms without leading zeros: shorter is smaller
NumLess(a, b) == Len(a) < Len(b) \/ (Len(a) = Len(b) /\ StrLess(a, b))

KeyLess(a, b) ==
  IF a.num # b.num THEN a.num
  ELSE IF a.num THEN NumLess(a.s, b.s)
  ELSE StrLess(a.s, b.s)

ByKey(a, b) == KeyLess(a.id, b.id)

ByParentPath(a, b) ==
  \/ StrLess(a.parentPath, b.parentPath)
  \/ a.parentPath = b.parentPath /\ KeyLess(a.id, b.id)

RECURSIVE ToArrayByKey(_)
ToArrayByKey(set) ==
  IF set = {} THEN <<>>
  ELSE LET first == CHOOSE c \in set : \A d \in set \ {c} : ByKey(c, d)
       IN <<first>> \o ToArrayByKey(set \ {first})

RECURSIVE ToArrayByParentPath(_)
ToArrayByParentPath(set) ==
  IF set = {} THEN <<>>
  ELSE LET first == CHOOSE c \in set : \A d \in set \ {c} : ByParentPath(c, d)
       IN <<first>> \o ToArrayByParentPath(set \ {first})

getAll(table) == ToArrayByKey(table)

getSubcollections(table, collectionId, recursive) ==
  LET parentPath == getSubcollectionParentPath(table, collectionId)
      indexed == {c \in table : c.parentPath # NoPath}
  IN IF recursive
     THEN ToArrayByParentPath({c \in indexed : StartsWith(c.parentPath, parentPath)})
     ELSE ToArrayByParentPath({c \in indexed : c.parentPath = parentPath})

----------------------------------------------------------------------------
(* Local writes *)

Stamped(queries, n, t) ==
  [i \in 1..Len(queries) |->
     [queries[i] EXCEPT !.id = uuid(n + i), !.created_at = t, !.updated_at = t]]

\* the record createLocalCollection adds; n ids have been handed out before
NewLocalCollection(table, n, t, collection, parentCollectionId) ==
  LET parentPath == IF Truthy(parentCollectionId)
                    THEN getSubcollectionParentPath(table, parentCollectionId)
                    ELSE <<>>
      k == Len(collection.queries)
  IN [collection EXCEPT !.queries = Stamped(collection.queries, n, t),
                        !.id = StrId(uuid(n + k + 1)),
                        !.parentPath = parentPath,
                        !.created_at = t,
                        !.updated_at = t]

createLocalCollection(table, n, t, collection, parentCollectionId) ==
  LET new == NewLocalCollection(table, n, t, collection, parentCollectionId)
  IN [table |-> table \cup {new}, uuids |-> n + Len(collection.queries) + 1, id |-> new.id]

deleteLocalCollection(table, collectionId) ==
  {c \in table : c.id # collectionId /\ c.id # getAlternateCollectionID(collectionId)}

\* the records the modify of moveLocalCollection selects
MoveSelects(c, collectionId, parentPath) ==
  \/ c.id = collectionId
  \/ c.id = getAlternateCollectionID(collectionId)
  \/ c.parentPath # NoPath /\ StartsWith(c.parentPath, parentPath)

\* c.parentPath?.replace(collectionParentPath, newParentSubcollectionParentPath)
MovedPath(c, collectionParentPath, newParentSubcollectionParentPath) ==
  IF c.parentPath = NoPath THEN NoPath
  ELSE Replace(c.parentPath, collectionParentPath, newParentSubcollectionParentPath)

moveLocalCollection(table, collectionId, newParentCollectionId) ==
  LET collection == getCollectionByID(table, collectionId)
      newParentCollection == getCollectionByID(table, newParentCollectionId)
      newParentSubcollectionParentPath ==
        PathOrEmpty(newParentCollection) \o COLLECTION_PATH_SEPARATOR
          \o IdStr(newParentCollectionId)
      collectionParentPath == PathOrEmpty(collection)
      parentPath == collectionParentPath \o COLLECTION_PATH_SEPARATOR \o IdStr(collectionId)
  IN IF collection = NoCollection \/ newParentCollection = NoCollection
     THEN [table |-> table, rejected |-> TRUE]
     ELSE [table |->
             {IF MoveSelects(c, collectionId, parentPath)
              THEN [c EXCEPT !.parentPath =
                      MovedPath(c, collectionParentPath, newParentSubcollectionParentPath)]
              ELSE c : c \in table},
           rejected |-> FALSE]

----------------------------------------------------------------------------
(* Tree builder *)

\* a tree node: the record, its id as a string, and its subtrees
NodeOf(collection, subtrees) ==
  [id |-> StrId(IdStr(collection.id)), title |-> collection.title,
   parentPath |-> collection.parentPath, serverId |-> collection.serverId,
   queries |-> collection.queries, created_at |-> collection.created_at,
   updated_at |-> collection.updated_at, collections |-> subtrees]

\* spreading an undefined tree
NoTree == NodeOf(NoCollection, <<>>)

\* a collection the second pass of getCollectionTrees pushes to roots
IsTreeRoot(collection) ==
  \/ collection.parentPath = NoPath
  \/ collection.parentPath = <<>>
  \/ getParentCollectionId(collection) = NoString

RECURSIVE TreeOf(_, _)
TreeOf(collection, collections) ==
  LET IsChild(c) == ~IsTreeRoot(c) /\ getParentCollectionId(c) = IdStr(collection.id)
      children == SelectSeq(collections, IsChild)
  IN NodeOf(collection, [i \in 1..Len(children) |-> TreeOf(children[i], collections)])

getCollectionTrees(collections) ==
  LET roots == SelectSeq(collections, IsTreeRoot)
  IN [i \in 1..Len(roots) |-> TreeOf(roots[i], collections)]

getCollectionTreeByCollectionId(table, collectionId) ==
  LET collection == getCollectionByID(table, collectionId)
      subcollections == getSubcollections(table, collectionId, TRUE)
      trees == getCollectionTrees(<<collection>> \o subcollections)
  IN IF trees = <<>> THEN NoTree ELSE trees[1]

getExportCollectionData(table, collectionId) ==
  [version |-> 1, type |-> "collection",
   tree |-> getCollectionTreeByCollectionId(table, collectionId)]

----------------------------------------------------------------------------
(* Import *)

\* a tree node without its collections: { collections, ...rootCollection } = tree
RootCollection(tree) ==
  [id |-> tree.id, title |-> tree.title, parentPath |-> tree.parentPath,
   serverId |-> tree.serverId, queries |-> tree.queries,
   created_at |-> tree.created_at, updated_at |-> tree.updated_at]

\* remapCollectionIDsToCollectionList(tree, parentPath) after n ids were handed
\* out: the flat list in pre-order, and the count of ids handed out after it
RECURSIVE remapCollectionIDsToCollectionList(_, _, _)
RECURSIVE RemapSubcollections(_, _, _)
remapCollectionIDsToCollectionList(tree, parentPath, n) ==
  LET newId == StrId(uuid(n + 1))
      subs == RemapSubcollections(
                tree.collections,
                parentPath \o COLLECTION_PATH_SEPARATOR \o IdStr(newId),
                n + 1)
  IN [list |-> <<[RootCollection(tree) EXCEPT !.id = newId, !.parentPath = parentPath]>>
                 \o subs.list,
      uuids |-> subs.uuids]

RemapSubcollections(trees, parentPath, n) ==
  IF trees = <<>> THEN [list |-> <<>>, uuids |-> n]
  ELSE LET first == remapCollectionIDsToCollectionList(Head(trees), parentPath, n)
           rest == RemapSubcollections(Tail(trees), parentPath, first.uuids)
       IN [list |-> first.list \o rest.list, uuids |-> rest.uuids]

\* for (...) await this.create(collection): no parent id is passed
RECURSIVE CreateAll(_, _, _, _)
CreateAll(collections, table, n, t) ==
  IF collections = <<>> THEN [table |-> table, uuids |-> n]
  ELSE LET made == createLocalCollection(table, n, t, Head(collections), NoId)
       IN CreateAll(Tail(collections), made.table, made.uuids, t)

\* the checks of importCollectionData; version 0 and type "" stand for absent
IsValidDocument(data) ==
  ~(data.version = 0 \/ data.type = "" \/ data.type # "collection")

RECURSIVE TreeSize(_)
RECURSIVE ForestSize(_)
TreeSize(tree) == 1 + ForestSize(tree.collections)
ForestSize(trees) ==
  IF trees = <<>> THEN 0 ELSE TreeSize(Head(trees)) + ForestSize(Tail(trees))

RECURSIVE TreeQueries(_)
RECURSIVE ForestQueries(_)
TreeQueries(tree) == Len(tree.queries) + ForestQueries(tree.collections)
ForestQueries(trees) ==
  IF trees = <<>> THEN 0 ELSE TreeQueries(Head(trees)) + ForestQueries(Tail(trees))

\* uuid() calls of one import: two per node, one per query
ImportUuids(data) ==
  IF data.tree = NoTree THEN 1 ELSE 2 * TreeSize(data.tree) + TreeQueries(data.tree)

importCollectionData(table, n, t, data) ==
  IF ~IsValidDocument(data)
  THEN [table |-> table, uuids |-> n, rejected |-> TRUE]
  ELSE IF data.tree = NoTree
  THEN \* the one collection has no queries to map over: create throws
       [table |-> table, uuids |-> n + 1, rejected |-> TRUE]
  ELSE LET collections == remapCollectionIDsToCollectionList(data.tree, <<>>, n)
           made == CreateAll(collections.list, table, collections.uuids, t)
       IN [table |-> made.table, uuids |-> made.uuids, rejected |-> FALSE]

\* a text handed to JSON.parse: '', a text that is no JSON, or the JSON of a
\* document
EmptyText == [kind |-> "empty", value |-> [version |-> 0, type |-> "", tree |-> NoTree]]
BrokenText == [kind |-> "broken", value |-> [version |-> 0, type |-> "", tree |-> NoTree]]
JsonText(data) == [kind |-> "json", value |-> data]

\* JSON.parse(text) throws unless the text is JSON
JsonParses(text) == text.kind = "json"
JsonParse(text) == text.value

\* the async function rejects on '' and on what JSON.parse throws, and
\* otherwise returns the promise of importCollectionData
importCollectionDataFromJson(table, n, t, data) ==
  IF data = EmptyText THEN [table |-> table, uuids |-> n, rejected |-> TRUE]
  ELSE IF ~JsonParses(data) THEN [table |-> table, uuids |-> n, rejected |-> TRUE]
  ELSE importCollectionData(table, n, t, JsonParse(data))

\* a file selection the reader cannot turn into text
NoFile == [kind |-> "unreadable", value |-> [version |-> 0, type |-> "", tree |-> NoTree]]

\* getFileStr(files) is awaited inside the try, so its rejection is caught and
\* the function resolves; the promise of importCollectionDataFromJson is
\* returned without await, so its rejection passes the catch and rejects
handleImportedFile(table, n, t, files) ==
  IF files = NoFile THEN [table |-> table, uuids |-> n, rejected |-> FALSE]
  ELSE importCollectionDataFromJson(table, n, t, files)

----------------------------------------------------------------------------
(* Queries *)

\* a lookup of a query that finds nothing
NoQuery ==
  [id |-> NoString, serverId |-> NoServerId, content |-> "", windowName |-> NoString,
   created_at |-> NoTime, updated_at |-> NoTime]

\* an IQuery as a caller passes it: content and windowName, no timestamps
IQuery(id, content, windowName) ==
  [NoQuery EXCEPT !.id = id, !.content = content, !.windowName = windowName]

\* { ...collectionQuery, ...query, id: queryId, updated_at: now }: a property
\* absent from query keeps the stored value
MergedQuery(collectionQuery, query, queryId, t) ==
  [id |-> queryId,
   serverId |-> IF query.serverId = NoServerId THEN collectionQuery.serverId
                ELSE query.serverId,
   content |-> query.content,
   windowName |-> IF query.windowName = NoString THEN collectionQuery.windowName
                  ELSE query.windowName,
   created_at |-> IF query.created_at = NoTime THEN collectionQuery.created_at
                  ELSE query.created_at,
   updated_at |-> t]

\* records that where(id).equals(..).or(id).equals(alternate) selects
Selected(table, collectionId) ==
  {c \in table : c.id = collectionId \/ c.id = getAlternateCollectionID(collectionId)}

addLocalQuery(table, n, t, collectionId, query) ==
  [table |-> updateCollectionByID(table, collectionId,
               LAMBDA c : [c EXCEPT !.queries =
                             Append(@, [query EXCEPT !.id = uuid(n + 1),
                                                     !.created_at = t,
                                                     !.updated_at = t])]),
   uuids |-> IF Selected(table, collectionId) = {} THEN n ELSE n + 1]

updateLocalQuery(table, t, collectionId, queryId, query) ==
  updateCollectionByID(table, collectionId,
    LAMBDA c : [c EXCEPT !.queries =
                  [i \in 1..Len(@) |->
                     IF @[i].id = queryId THEN MergedQuery(@[i], query, queryId, t)
                     ELSE @[i]]])

\* the filter of deleteLocalQuery keeps collectionQuery
KeptByDelete(query, collectionQuery) ==
  IF query.id # NoString THEN query.id # collectionQuery.id
  ELSE query.windowName # collectionQuery.windowName

deleteLocalQuery(table, collectionId, query) ==
  updateCollectionByID(table, collectionId,
    LAMBDA c : [c EXCEPT !.queries = SelectSeq(@, LAMBDA cq : KeptByDelete(query, cq))])

getLocalQuery(table, collectionId, queryId) ==
  LET localCollection == getCollectionByID(table, collectionId)
      hits == IF localCollection = NoCollection THEN {}
              ELSE {i \in 1..Len(localCollection.queries) :
                      localCollection.queries[i].id = queryId}
  IN IF hits = {} THEN NoQuery
     ELSE localCollection.queries[CHOOSE i \in hits : \A j \in hits : i <= j]

updateLocalCollection(table, t, collectionId, modifiedCollection) ==
  updateCollectionByID(table, collectionId,
    LAMBDA c : [modifiedCollection EXCEPT !.updated_at = t])

----------------------------------------------------------------------------
(* The remote service behind ApiService.  A call answers "ok", answers with
   nothing ("none": null, or an empty list), or fails ("throw"). *)

Answers == {"ok", "none", "throw"}

\* the n-th id the remote service hands out
sid(n) == <<"s", Digits[n + 1]>>

ServerQuery(id, t, query) == [id |-> id, updatedAt |-> t, content |-> query]

\* one remote call: the api, the server id it names, the local collection it is
\* made for, whether that collection had a serverId when it was made, and the
\* server ids the call answered with
Call(api, serverId, collection, ret) ==
  [api |-> api, sid |-> serverId, cid |-> collection.id,
   synced |-> collection.serverId # NoServerId, ret |-> ret]

NoRes == [collectionId |-> NoServerId, queryIds |-> <<>>]

ApiCreateQueryCollection(remote, k, t, collection, answer) ==
  LET queryIds == [i \in 1..Len(collection.queries) |-> sid(k + 1 + i)]
      created == [id |-> sid(k + 1), collectionName |-> collection.title, updatedAt |-> t,
                  queries |-> [i \in 1..Len(collection.queries) |->
                                 ServerQuery(queryIds[i], t, collection.queries[i])]]
  IN IF answer = "ok"
     THEN [remote |-> remote \cup {created}, sids |-> k + 1 + Len(collection.queries),
           res |-> [collectionId |-> sid(k + 1), queryIds |-> queryIds]]
     ELSE [remote |-> remote, sids |-> k, res |-> NoRes]

ApiCreateQueries(remote, k, t, collectionServerId, queries, answer) ==
  LET ids == [i \in 1..Len(queries) |-> sid(k + i)]
      added == [i \in 1..Len(queries) |-> ServerQuery(ids[i], t, queries[i])]
  IN IF answer = "ok"
     THEN [remote |-> {IF sc.id = collectionServerId
                       THEN [sc EXCEPT !.queries = @ \o added, !.updatedAt = t]
                       ELSE sc : sc \in remote},
           sids |-> k + Len(queries), ids |-> ids]
     ELSE [remote |-> remote, sids |-> k, ids |-> <<>>]

ApiUpdateQuery(remote, t, queryServerId, query, answer) ==
  IF answer = "throw" THEN remote
  ELSE {[sc EXCEPT !.queries =
           [i \in 1..Len(@) |->
              IF @[i].id = queryServerId THEN ServerQuery(queryServerId, t, query)
              ELSE @[i]]] : sc \in remote}

ApiUpdateCollection(remote, t, serverId, collection, answer) ==
  IF answer = "throw" THEN remote
  ELSE {IF sc.id = serverId
        THEN [sc EXCEPT !.collectionName = collection.title, !.updatedAt = t]
        ELSE sc : sc \in remote}

ApiDeleteQuery(remote, queryServerId, answer) ==
  IF answer = "throw" THEN remote
  ELSE {[sc EXCEPT !.queries = SelectSeq(@, LAMBDA q : q.id # queryServerId)] :
          sc \in remote}

ApiDeleteCollection(remote, serverId, answer) ==
  IF answer = "throw" THEN remote ELSE {sc \in remote : sc.id # serverId}

RECURSIVE ApiGetCollections(_)
ApiGetCollections(remote) ==
  IF remote = {} THEN <<>>
  ELSE LET first == CHOOSE sc \in remote : \A d \in remote \ {sc} : StrLess(sc.id, d.id)
       IN <<first>> \o ApiGetCollections(remote \ {first})

----------------------------------------------------------------------------
(* The public operations.  Each yields the table, the counts of ids handed
   out, the remote service, the remote calls made, and whether the returned
   promise rejects. *)

Outcome(table, n, remote, k, calls, rejected) ==
  [table |-> table, uuids |-> n, remote |-> remote, sids |-> k, calls |-> calls,
   rejected |-> rejected]

\* canApplyRemote(): auth is whether getUser() answers with a user
\* a gate that lets every caller through
AlwaysApplyRemote(auth) == TRUE

canApplyRemote(auth) == auth

\* updateLocalQuery for each [idx, queryServerId] of queryServerIds.entries()
RECURSIVE StampServerIds(_, _, _, _, _, _)
StampServerIds(table, t, collectionId, queries, queryServerIds, idx) ==
  IF idx > Len(queryServerIds) THEN table
  ELSE StampServerIds(
         updateLocalQuery(table, t, collectionId, queryServerIds[idx],
                          [queries[idx] EXCEPT !.serverId = queryServerIds[idx]]),
         t, collectionId, queries, queryServerIds, idx + 1)

addRemoteQuery(table, n, t, remote, k, collectionId, queries, answer) ==
  LET localCollection == getCollectionByID(table, collectionId)
      api == ApiCreateQueries(remote, k, t, localCollection.serverId, queries, answer)
      calls == <<Call("createQueries", localCollection.serverId, localCollection, api.ids)>>
  IN IF localCollection = NoCollection THEN Outcome(table, n, remote, k, <<>>, TRUE)
     ELSE IF localCollection.serverId = NoServerId
     THEN Outcome(table, n, remote, k, <<>>, FALSE)
     ELSE IF answer = "throw" \/ api.ids = <<>>
     THEN Outcome(table, n, api.remote, api.sids, calls, TRUE)
     ELSE Outcome(StampServerIds(table, t, collectionId, queries, api.ids, 1),
                  n, api.remote, api.sids, calls, FALSE)

addQuery(table, n, t, auth, remote, k, collectionId, query, answer) ==
  LET res == addLocalQuery(table, n, t, collectionId, query)
      localCollection == getCollectionByID(res.table, collectionId)
  IN IF localCollection = NoCollection
     THEN Outcome(res.table, res.uuids, remote, k, <<>>, TRUE)
     ELSE IF ~canApplyRemote(auth)
     THEN Outcome(res.table, res.uuids, remote, k, <<>>, FALSE)
     ELSE IF localCollection.serverId # NoServerId
     THEN addRemoteQuery(res.table, res.uuids, t, remote, k, collectionId, <<query>>, answer)
     ELSE Outcome(res.table, res.uuids, remote, k, <<>>, FALSE)

updateQuery(table, n, t, auth, remote, k, collectionId, queryId, query, answer) ==
  LET res == updateLocalQuery(table, t, collectionId, queryId, query)
      localCollection == getCollectionByID(res, collectionId)
      localQuery == getLocalQuery(res, collectionId, queryId)
  IN IF ~canApplyRemote(auth) THEN Outcome(res, n, remote, k, <<>>, FALSE)
     ELSE IF localCollection = NoCollection THEN Outcome(res, n, remote, k, <<>>, TRUE)
     ELSE IF localCollection.serverId = NoServerId
     THEN Outcome(res, n, remote, k, <<>>, FALSE)
     ELSE IF localQuery.serverId = NoServerId
     THEN addRemoteQuery(res, n, t, remote, k, collectionId, <<query>>, answer)
     ELSE Outcome(res, n, ApiUpdateQuery(remote, t, localQuery.serverId, query, answer), k,
                  <<Call("updateQuery", localQuery.serverId, localCollection, <<>>)>>,
                  answer = "throw")

deleteQuery(table, n, t, auth, remote, k, collectionId, query, answer) ==
  LET localCollection == getCollectionByID(table, collectionId)
      localQuery == getLocalQuery(table, collectionId, query.id)
      res == deleteLocalQuery(table, collectionId, query)
  IN IF localCollection = NoCollection THEN Outcome(table, n, remote, k, <<>>, TRUE)
     ELSE IF ~canApplyRemote(auth) THEN Outcome(res, n, remote, k, <<>>, FALSE)
     ELSE IF localCollection.serverId = NoServerId
     THEN Outcome(res, n, remote, k, <<>>, FALSE)
     ELSE IF query.id = NoString THEN Outcome(res, n, remote, k, <<>>, FALSE)
     ELSE IF localQuery.serverId = NoServerId THEN Outcome(res, n, remote, k, <<>>, FALSE)
     ELSE Outcome(res, n, ApiDeleteQuery(remote, localQuery.serverId, answer), k,
                  <<Call("deleteQuery", localQuery.serverId, localCollection, <<>>)>>,
                  answer = "throw")

\* a delete that puts the record back when the remote call fails
deleteCollectionOrRestore(table, n, t, auth, remote, k, collectionId, answer) ==
  LET localCollection == getCollectionByID(table, collectionId)
      res == deleteLocalCollection(table, collectionId)
  IN IF localCollection = NoCollection THEN Outcome(table, n, remote, k, <<>>, TRUE)
     ELSE IF ~canApplyRemote(auth) THEN Outcome(res, n, remote, k, <<>>, FALSE)
     ELSE IF localCollection.serverId = NoServerId
     THEN Outcome(res, n, remote, k, <<>>, FALSE)
     ELSE Outcome(IF answer = "throw" THEN table ELSE res, n,
                  ApiDeleteCollection(remote, localCollection.serverId, answer), k,
                  <<Call("deleteCollection", localCollection.serverId, localCollection, <<>>)>>,
                  answer = "throw")

deleteCollection(table, n, t, auth, remote, k, collectionId, answer) ==
  LET localCollection == getCollectionByID(table, collectionId)
      res == deleteLocalCollection(table, collectionId)
  IN IF localCollection = NoCollection THEN Outcome(table, n, remote, k, <<>>, TRUE)
     ELSE IF ~canApplyRemote(auth) THEN Outcome(res, n, remote, k, <<>>, FALSE)
     ELSE IF localCollection.serverId = NoServerId
     THEN Outcome(res, n, remote, k, <<>>, FALSE)
     ELSE Outcome(res, n, ApiDeleteCollection(remote, localCollection.serverId, answer), k,
                  <<Call("deleteCollection", localCollection.serverId, localCollection, <<>>)>>,
                  answer = "throw")

\* `${serverId}` of an absent serverId
ServerIdStr(serverId) == IF serverId = NoServerId THEN <<"undefined">> ELSE serverId

updateRemoteCollection(table, n, t, auth, remote, k, collectionId, answer) ==
  LET localCollection == getCollectionByID(table, collectionId)
  IN IF ~canApplyRemote(auth) THEN Outcome(table, n, remote, k, <<>>, FALSE)
     ELSE IF localCollection = NoCollection THEN Outcome(table, n, remote, k, <<>>, TRUE)
     ELSE Outcome(table, n,
                  ApiUpdateCollection(remote, t, ServerIdStr(localCollection.serverId),
                                      localCollection, answer),
                  k,
                  <<Call("updateCollection", ServerIdStr(localCollection.serverId),
                         localCollection, <<>>)>>,
                  answer = "throw")

updateCollection(table, n, t, auth, remote, k, collectionId, modifiedCollection, answer) ==
  LET res == updateLocalCollection(table, t, collectionId, modifiedCollection)
      localCollection == getCollectionByID(res, collectionId)
  IN IF localCollection = NoCollection THEN Outcome(res, n, remote, k, <<>>, TRUE)
     ELSE IF localCollection.serverId = NoServerId
     THEN Outcome(res, n, remote, k, <<>>, FALSE)
     ELSE updateRemoteCollection(res, n, t, auth, remote, k, collectionId, answer)

\* res.queryIds[idx + 1]: the ids shifted by one position
QueryIdAfter(queryIds, idx) ==
  IF idx + 1 \in 1..Len(queryIds) THEN queryIds[idx + 1] ELSE NoServerId

\* res.queryIds[idx], undefined past the end
QueryIdAt(queryIds, idx) == IF idx \in 1..Len(queryIds) THEN queryIds[idx] ELSE NoServerId

\* localCollection.queries.map((query, idx) => { query.serverId = res.queryIds[idx]; ... })
WithServerIds(queries, queryIds) ==
  [idx \in 1..Len(queries) |-> [queries[idx] EXCEPT !.serverId = QueryIdAt(queryIds, idx)]]

createRemoteCollection(table, n, t, auth, remote, k, localCollectionId, collection, answer) ==
  LET parentCollection == getParentCollection(table, collection)
      api == ApiCreateQueryCollection(remote, k, t, collection, answer)
      calls == <<[Call("createQueryCollection", parentCollection.serverId, collection,
                       IF api.res = NoRes THEN <<>>
                       ELSE <<api.res.collectionId>> \o api.res.queryIds)
                    EXCEPT !.cid = localCollectionId]>>
      localCollection == getCollectionByID(table, localCollectionId)
      stamped == [localCollection EXCEPT
                    !.serverId = api.res.collectionId,
                    !.queries = WithServerIds(@, api.res.queryIds)]
  IN IF ~canApplyRemote(auth) THEN Outcome(table, n, remote, k, <<>>, FALSE)
     ELSE IF answer = "throw" \/ api.res = NoRes
     THEN Outcome(table, n, api.remote, api.sids, calls, TRUE)
     ELSE IF localCollection = NoCollection
     THEN Outcome(table, n, api.remote, api.sids, calls, TRUE)
     ELSE Outcome(updateLocalCollection(table, t, localCollectionId, stamped),
                  n, api.remote, api.sids, calls, FALSE)

----------------------------------------------------------------------------
(* syncRemoteToLocal *)

timestampDiffOffset == 120000

\* a comparison that also lets the remote win at exactly the tolerance
RemoteIsNewerOrEqual(serverTime, localTime) ==
  /\ serverTime # NoTime
  /\ localTime # NoTime
  /\ serverTime >= localTime + timestampDiffOffset

\* new Date(server).getTime() > new Date(local).getTime() + timestampDiffOffset;
\* the time of an absent date is NaN, and no comparison with NaN holds
RemoteIsNewer(serverTime, localTime) ==
  /\ serverTime # NoTime
  /\ localTime # NoTime
  /\ serverTime > localTime + timestampDiffOffset

\* a decision that overwrites every query the remote copy matches
SyncedQueryAlways(query, serverQuery) ==
  IF query.serverId = serverQuery.id
  THEN [serverQuery.content EXCEPT !.serverId = serverQuery.id]
  ELSE query

\* { ...serverQuery.content, serverId: serverQuery.id }
QueryFromServer(serverQuery) == [serverQuery.content EXCEPT !.serverId = serverQuery.id]

SyncedQuery(query, serverQuery) ==
  IF query.serverId = serverQuery.id
     /\ RemoteIsNewer(serverQuery.updatedAt, query.updated_at)
  THEN QueryFromServer(serverQuery)
  ELSE query

\* serverCollection.queries.forEach: each pass maps over the local queries
RECURSIVE SyncedQueries(_, _)
SyncedQueries(queries, serverQueries) ==
  IF serverQueries = <<>> THEN queries
  ELSE SyncedQueries([i \in 1..Len(queries) |-> SyncedQuery(queries[i], Head(serverQueries))],
                     Tail(serverQueries))

\* the title is assigned inside the forEach over the server's queries
SyncedCollection(matchedCollection, serverCollection) ==
  [matchedCollection EXCEPT
     !.queries = SyncedQueries(@, serverCollection.queries),
     !.title = IF serverCollection.queries = <<>> THEN @
               ELSE serverCollection.collectionName]

\* localCollections.find((collection) => collection.serverId === serverCollection.id)
MatchedCollection(localCollections, serverCollection) ==
  LET hits == {i \in 1..Len(localCollections) :
                 localCollections[i].serverId = serverCollection.id}
  IN IF hits = {} THEN NoCollection
     ELSE localCollections[CHOOSE i \in hits : \A j \in hits : i <= j]

CollectionFromServer(serverCollection) ==
  [NoCollection EXCEPT
     !.title = serverCollection.collectionName,
     !.queries = [i \in 1..Len(serverCollection.queries) |->
                    QueryFromServer(serverCollection.queries[i])],
     !.serverId = serverCollection.id]

RECURSIVE SyncAll(_, _, _, _, _)
SyncAll(serverList, localCollections, table, n, t) ==
  IF serverList = <<>> THEN [table |-> table, uuids |-> n]
  ELSE LET serverCollection == Head(serverList)
           matchedCollection == MatchedCollection(localCollections, serverCollection)
           made == createLocalCollection(table, n, t,
                                         CollectionFromServer(serverCollection), NoId)
       IN IF matchedCollection # NoCollection
          THEN IF RemoteIsNewer(serverCollection.updatedAt, matchedCollection.updated_at)
                  /\ Truthy(matchedCollection.id)
               THEN SyncAll(Tail(serverList), localCollections,
                            updateLocalCollection(
                              table, t, matchedCollection.id,
                              SyncedCollection(matchedCollection, serverCollection)),
                            n, t)
               ELSE SyncAll(Tail(serverList), localCollections, table, n, t)
          ELSE SyncAll(Tail(serverList), localCollections, made.table, made.uuids, t)

syncRemoteToLocal(table, n, t, auth, remote, k, answer) ==
  LET serverList == IF answer = "ok" THEN ApiGetCollections(remote) ELSE <<>>
      calls == <<Call("getCollections", NoServerId, NoCollection, <<>>)>>
      synced == SyncAll(serverList, getAll(table), table, n, t)
  IN IF ~canApplyRemote(auth) THEN Outcome(table, n, remote, k, <<>>, FALSE)
     ELSE IF answer = "throw" THEN Outcome(table, n, remote, k, calls, TRUE)
     ELSE IF serverList = <<>> THEN Outcome(table, n, remote, k, calls, FALSE)
     ELSE Outcome(synced.table, synced.uuids, remote, k, calls, FALSE)

----------------------------------------------------------------------------
(* State machine *)

NoDocument == [version |-> 0, type |-> "", tree |-> NoTree]

\* a slot no call occupies
Idle ==
  [op |-> "idle", pc |-> "", cid |-> NoId, res |-> NoRes, localCollection |-> NoCollection,
   serverList |-> <<>>, localCollections |-> <<>>]

NoTasks == [slot \in 1..MaxTasks |-> Idle]

NoLast ==
  [op |-> "none", cid |-> NoId, pid |-> NoId, query |-> NoQuery, data |-> NoCollection,
   doc |-> NoDocument, text |-> "", ret |-> NoId, auth |-> FALSE, answer |-> "ok",
   rejected |-> FALSE, calls |-> <<>>, missed |-> {}, created |-> <<>>,
   parents |-> <<>>, returned |-> TRUE, added |-> {}]

Titles == {"A"}
Contents == {"q1", "q2"}
WindowName == <<"w">>

\* records written before ids were uuids: the key is a number
Legacy(s, parentPath) ==
  [NoCollection EXCEPT !.id = NumId(s), !.title = "A", !.parentPath = parentPath,
                       !.created_at = 0, !.updated_at = 0]

LegacyTables == {{}, {Legacy(<<"1">>, <<>>), Legacy(<<"1", "2">>, <<>>)}}

Ids == {c.id : c \in queryCollections}

\* ids a caller may pass: the stored ones, the string form of a stored number,
\* and one that names nothing
MissingId == StrId(<<"x">>)
IdInputs == Ids \cup {getAlternateCollectionID(i) : i \in {j \in Ids : j.num}} \cup {MissingId}

\* strings a caller may look up that are no stored key: '1x' and '01'
ProbeIds == {StrId(<<"1", "x">>), StrId(<<"0", "1">>)}

\* a document exported elsewhere: a collection with one subcollection
ForeignDocument(type) ==
  [version |-> 1, type |-> type,
   tree |-> NodeOf([NoCollection EXCEPT !.id = StrId(<<"u", "0", "1">>), !.title = "A",
                                        !.parentPath = <<>>],
                   <<NodeOf([NoCollection EXCEPT !.id = StrId(<<"u", "0", "2">>),
                                                 !.title = "B",
                                                 !.parentPath = <<"/", "u", "0", "1">>],
                            <<>>)>>)]

\* ids in a path
Depth(path) == Cardinality({i \in 1..Len(path) : <<path[i]>> = COLLECTION_PATH_SEPARATOR})

\* the bound on paths
Shallow(table) == \A c \in table : c.parentPath = NoPath \/ Depth(c.parentPath) <= MaxDepth

\* documents a caller may import: the one just exported, or one written elsewhere
Documents ==
  (IF last.op = "getExportCollectionData" THEN {last.doc} ELSE {})
    \cup {ForeignDocument("collection"), ForeignDocument("other"),
          [ForeignDocument("collection") EXCEPT !.version = 2], NoDocument}

\* texts a caller may pass, and file selections
Texts == {EmptyText, BrokenText} \cup {JsonText(data) : data \in Documents}
Files == Texts \cup {NoFile}

FitsImport(data) ==
  /\ Cardinality(queryCollections) + TreeSize(data.tree) <= MaxCollections
  /\ uuidCount + ImportUuids(data) <= MaxUuid

\* operations that write to a collection and then tell the remote service
MirroredOps == {"addQuery", "updateQuery", "deleteQuery", "updateCollection"}

\* the operation wrote to a synced collection and the remote write did not
\* happen: no call was made, or the call failed
LocalAhead(out, l) ==
  /\ l.op \in MirroredOps
  /\ getCollectionByID(queryCollections, l.cid).serverId # NoServerId
  /\ out.table # queryCollections
  /\ out.calls = <<>> \/ out.rejected

\* history: the ids of the collections that were written to in that way
Missed(out, l) == IF LocalAhead(out, l) THEN last.missed \cup {l.cid} ELSE last.missed

\* history: the local ids of the queries a createQueries call has created
Created(out, l) ==
  LET queries == getCollectionByID(out.table, l.cid).queries
  IN IF /\ l.op \in {"addQuery", "updateQuery"}
        /\ out.calls # <<>>
        /\ out.calls[1].api = "createQueries"
        /\ ~out.rejected
     THEN Append(last.created,
                 IF l.op = "updateQuery" THEN l.query.id ELSE queries[Len(queries)].id)
     ELSE last.created

\* no call is between two of its awaits
AllIdle == \A slot \in DOMAIN tasks : tasks[slot].op = "idle"

\* history: the queries addQuery wrote while another call was in flight, as
\* pairs of collection id and query id
Added(out, l) ==
  LET queries == getCollectionByID(out.table, l.cid).queries
  IN IF l.op = "addQuery" /\ ~AllIdle /\ out.table # queryCollections
     THEN last.added \cup {<<l.cid, queries[Len(queries)].id>>}
     ELSE last.added

Finish(out, l) ==
  /\ queryCollections' = out.table
  /\ uuidCount' = out.uuids
  /\ serverCollections' = out.remote
  /\ serverIdCount' = out.sids
  /\ prevCollections' = queryCollections
  /\ last' = [l EXCEPT !.auth = user, !.rejected = out.rejected, !.calls = out.calls,
                       !.answer = IF out.calls = <<>> THEN "ok" ELSE @,
                       !.missed = Missed(out, l),
                       !.created = Created(out, l),
                       !.added = Added(out, l)]
  /\ moveCount' = IF l.op = "moveCollection" THEN moveCount + 1 ELSE moveCount
  /\ UNCHANGED <<now, user, tasks>>

Create(title, queries, parentCollectionId) ==
  LET collection == [NoCollection EXCEPT !.title = title, !.queries = queries]
      made == createLocalCollection(queryCollections, uuidCount, now, collection,
                                    parentCollectionId)
  IN Finish(Outcome(made.table, made.uuids, serverCollections, serverIdCount, <<>>, FALSE),
            [NoLast EXCEPT !.op = "create", !.pid = parentCollectionId,
                           !.data = collection, !.ret = made.id])

MoveCollection(collectionId, newParentCollectionId) ==
  LET moved == moveLocalCollection(queryCollections, collectionId, newParentCollectionId)
  IN Finish(Outcome(moved.table, uuidCount, serverCollections, serverIdCount,
                    <<>>, moved.rejected),
            [NoLast EXCEPT !.op = "moveCollection", !.cid = collectionId,
                           !.pid = newParentCollectionId])

DeleteCollection(collectionId, answer) ==
  Finish(deleteCollection(queryCollections, uuidCount, now, user, serverCollections,
                          serverIdCount, collectionId, answer),
         [NoLast EXCEPT !.op = "deleteCollection", !.cid = collectionId,
                        !.answer = answer])

\* the record returned is kept in last.data
GetCollectionByID(collectionId) ==
  Finish(Outcome(queryCollections, uuidCount, serverCollections, serverIdCount,
                 <<>>, FALSE),
         [NoLast EXCEPT !.op = "getCollectionByID", !.cid = collectionId,
                        !.data = getCollectionByID(queryCollections, collectionId)])

\* the parents returned are kept in last.parents; last.returned tells whether
\* the loop returns at all
GetAllParentCollections(collectionId) ==
  LET res == getAllParentCollections(queryCollections,
                                     getCollectionByID(queryCollections, collectionId))
  IN Finish(Outcome(queryCollections, uuidCount, serverCollections, serverIdCount,
                    <<>>, FALSE),
            [NoLast EXCEPT !.op = "getAllParentCollections", !.cid = collectionId,
                           !.parents = [i \in 1..Len(res.collections) |->
                                          res.collections[i].id],
                           !.returned = res.returned])

\* the document returned is kept in last.doc
GetExportCollectionData(collectionId) ==
  /\ getCollectionByID(queryCollections, collectionId) # NoCollection
  /\ Finish(Outcome(queryCollections, uuidCount, serverCollections, serverIdCount,
                    <<>>, FALSE),
            [NoLast EXCEPT !.op = "getExportCollectionData", !.cid = collectionId,
                           !.doc = getExportCollectionData(queryCollections, collectionId)])

ImportCollectionData(data) ==
  LET imported == importCollectionData(queryCollections, uuidCount, now, data)
  IN Finish(Outcome(imported.table, imported.uuids, serverCollections, serverIdCount,
                    <<>>, imported.rejected),
            [NoLast EXCEPT !.op = "importCollectionData", !.doc = data,
                           !.text = "object"])

ImportCollectionDataFromJson(data) ==
  LET imported == importCollectionDataFromJson(queryCollections, uuidCount, now, data)
  IN Finish(Outcome(imported.table, imported.uuids, serverCollections, serverIdCount,
                    <<>>, imported.rejected),
            [NoLast EXCEPT !.op = "importCollectionDataFromJson", !.doc = data.value,
                           !.text = data.kind])

HandleImportedFile(files) ==
  LET imported == handleImportedFile(queryCollections, uuidCount, now, files)
  IN Finish(Outcome(imported.table, imported.uuids, serverCollections, serverIdCount,
                    <<>>, imported.rejected),
            [NoLast EXCEPT !.op = "handleImportedFile", !.doc = files.value,
                           !.text = files.kind])

Init ==
  /\ queryCollections \in LegacyTables
  /\ uuidCount = 0
  /\ moveCount = 0
  /\ now = 0
  /\ user = FALSE
  /\ serverCollections = {}
  /\ serverIdCount = 0
  /\ last = NoLast
  /\ prevCollections = queryCollections
  /\ tasks = NoTasks

Next ==
  \/ \E title \in Titles, parentCollectionId \in Ids \cup {NoId} :
       /\ Cardinality(queryCollections) < MaxCollections
       /\ uuidCount < MaxUuid
       /\ Create(title, <<>>, parentCollectionId)
       /\ Shallow(queryCollections')
  \/ \E collectionId \in Ids \cup {MissingId}, newParentCollectionId \in Ids \cup {MissingId} :
       /\ moveCount < MaxMoves
       /\ MoveCollection(collectionId, newParentCollectionId)
       /\ Shallow(queryCollections')
  \/ \E collectionId \in IdInputs : DeleteCollection(collectionId, "ok")
  \/ \E collectionId \in Ids : GetExportCollectionData(collectionId)
  \/ \E collectionId \in IdInputs \cup ProbeIds : GetCollectionByID(collectionId)
  \/ \E collectionId \in Ids : GetAllParentCollections(collectionId)
  \/ \E data \in Documents :
       /\ Cardinality(queryCollections) + TreeSize(data.tree) <= MaxCollections
       /\ uuidCount + ImportUuids(data) <= MaxUuid
       /\ ImportCollectionData(data)
  \/ \E data \in Texts : FitsImport(data.value) /\ ImportCollectionDataFromJson(data)
  \/ \E files \in Files : FitsImport(files.value) /\ HandleImportedFile(files)

Spec == Init /\ [][Next]_vars

----------------------------------------------------------------------------
(* The operations that reach the remote service, and its environment *)

\* an exported collection without subcollections
SingleDocument ==
  [version |-> 1, type |-> "collection",
   tree |-> NodeOf([NoCollection EXCEPT !.id = StrId(<<"u", "0", "1">>), !.title = "B",
                                        !.parentPath = <<>>],
                   <<>>)]

Stored(collectionId) == getCollectionByID(queryCollections, collectionId)

HasRoom(out) ==
  /\ Cardinality(out.table) <= MaxLocal
  /\ out.uuids <= MaxSyncUuid

Run(out, l) == HasRoom(out) /\ Finish(out, l)

AddQuery(collectionId, query, answer) ==
  Run(addQuery(queryCollections, uuidCount, now, user, serverCollections, serverIdCount,
               collectionId, query, answer),
      [NoLast EXCEPT !.op = "addQuery", !.cid = collectionId, !.query = query,
                     !.answer = answer])

UpdateQuery(collectionId, queryId, query, answer) ==
  Run(updateQuery(queryCollections, uuidCount, now, user, serverCollections, serverIdCount,
                  collectionId, queryId, query, answer),
      [NoLast EXCEPT !.op = "updateQuery", !.cid = collectionId,
                     !.query = [query EXCEPT !.id = queryId], !.answer = answer])

DeleteQuery(collectionId, query, answer) ==
  Run(deleteQuery(queryCollections, uuidCount, now, user, serverCollections, serverIdCount,
                  collectionId, query, answer),
      [NoLast EXCEPT !.op = "deleteQuery", !.cid = collectionId, !.query = query,
                     !.answer = answer])

UpdateCollection(collectionId, modifiedCollection, answer) ==
  Run(updateCollection(queryCollections, uuidCount, now, user, serverCollections,
                       serverIdCount, collectionId, modifiedCollection, answer),
      [NoLast EXCEPT !.op = "updateCollection", !.cid = collectionId,
                     !.data = modifiedCollection, !.answer = answer])

UpdateRemoteCollection(collectionId, answer) ==
  Run(updateRemoteCollection(queryCollections, uuidCount, now, user, serverCollections,
                             serverIdCount, collectionId, answer),
      [NoLast EXCEPT !.op = "updateRemoteCollection", !.cid = collectionId,
                     !.answer = answer])

\* the caller passes the collection it read from the table
CreateRemoteCollection(localCollectionId, answer) ==
  /\ Stored(localCollectionId) # NoCollection
  /\ Run(createRemoteCollection(queryCollections, uuidCount, now, user, serverCollections,
                                serverIdCount, localCollectionId,
                                Stored(localCollectionId), answer),
         [NoLast EXCEPT !.op = "createRemoteCollection", !.cid = localCollectionId,
                        !.data = Stored(localCollectionId), !.answer = answer])

SyncRemoteToLocal(answer) ==
  Run(syncRemoteToLocal(queryCollections, uuidCount, now, user, serverCollections,
                        serverIdCount, answer),
      [NoLast EXCEPT !.op = "syncRemoteToLocal", !.answer = answer])

Env(l) ==
  /\ last' = [l EXCEPT !.missed = last.missed, !.created = last.created,
                       !.added = last.added]
  /\ prevCollections' = queryCollections
  /\ UNCHANGED <<queryCollections, uuidCount, moveCount, serverIdCount, tasks>>

\* the user logs in or out
SetUser(loggedIn) ==
  /\ user # loggedIn
  /\ user' = loggedIn
  /\ Env([NoLast EXCEPT !.op = "setUser"])
  /\ UNCHANGED <<now, serverCollections>>

\* times at which another client writes to the remote service: the first
\* millisecond past the tolerance of a record written at 0, and the one before
RemoteTimes == {timestampDiffOffset, timestampDiffOffset + 1}

\* another client renames a remote collection at time t and rewrites its
\* first queries at time tq
RemoteEdit(serverId, collectionName, content, t, edited, tq) ==
  /\ serverCollections' =
       {IF sc.id = serverId
        THEN [sc EXCEPT !.collectionName = collectionName, !.updatedAt = t,
                        !.queries = [i \in 1..Len(@) |->
                                       IF i <= edited
                                       THEN [@[i] EXCEPT !.updatedAt = tq,
                                                         !.content.content = content]
                                       ELSE @[i]]]
        ELSE sc : sc \in serverCollections}
  /\ serverCollections' # serverCollections
  /\ Env([NoLast EXCEPT !.op = "remoteEdit"])
  /\ UNCHANGED <<now, user>>

\* a collection the table already holds when the service starts
Seeded ==
  [NoCollection EXCEPT
     !.id = StrId(<<"c", "0">>), !.title = "A", !.parentPath = <<>>,
     !.queries = <<[IQuery(<<"q", "a">>, "q1", WindowName) EXCEPT
                      !.created_at = 0, !.updated_at = 0],
                   [IQuery(<<"q", "b">>, "q2", <<"v">>) EXCEPT
                      !.created_at = 0, !.updated_at = 0]>>,
     !.created_at = 0, !.updated_at = 0]

SyncInit ==
  /\ queryCollections = {}
  /\ uuidCount = 0
  /\ moveCount = 0
  /\ now = 0
  /\ user = FALSE
  /\ serverCollections = {}
  /\ serverIdCount = 0
  /\ last = NoLast
  /\ prevCollections = queryCollections
  /\ tasks = NoTasks

StoredQueries(collectionId) ==
  {Stored(collectionId).queries[i] : i \in 1..Len(Stored(collectionId).queries)}

SyncNext ==
  \/ \E title \in Titles, queries \in {<<>>, <<IQuery(NoString, "q1", WindowName)>>},
        parentCollectionId \in {NoId} :
       /\ Cardinality(queryCollections) < MaxLocal
       /\ uuidCount + Len(queries) < MaxSyncUuid
       /\ Create(title, queries, parentCollectionId)
  \/ \E collectionId \in Ids, answer \in Answers :
       DeleteCollection(collectionId, answer)
  \/ /\ Cardinality(queryCollections) < MaxLocal
     /\ uuidCount + ImportUuids(SingleDocument) <= MaxSyncUuid
     /\ ImportCollectionData(SingleDocument)
  \/ \E collectionId \in Ids, answer \in Answers :
       /\ Len(Stored(collectionId).queries) < MaxQueries
       /\ AddQuery(collectionId, IQuery(NoString, "q1", WindowName), answer)
       /\ serverIdCount' <= MaxServerIds
  \/ \E collectionId \in Ids, answer \in Answers :
       \E query \in StoredQueries(collectionId) :
          /\ UpdateQuery(collectionId, query.id, IQuery(NoString, "q2", NoString), answer)
          /\ serverIdCount' <= MaxServerIds
  \/ \E collectionId \in Ids, answer \in Answers :
       \E query \in StoredQueries(collectionId) \cup {IQuery(NoString, "", WindowName)} :
          DeleteQuery(collectionId, query, answer)
  \/ \E collectionId \in Ids, title \in {"B"}, keepServerId \in BOOLEAN,
        answer \in Answers :
       UpdateCollection(collectionId,
                        [Stored(collectionId) EXCEPT
                           !.title = title,
                           !.serverId = IF keepServerId THEN @ ELSE NoServerId],
                        answer)
  \/ \E collectionId \in Ids, answer \in Answers :
       UpdateRemoteCollection(collectionId, answer)
  \/ \E localCollectionId \in Ids, answer \in Answers :
       /\ CreateRemoteCollection(localCollectionId, answer)
       /\ serverIdCount' <= MaxServerIds
  \/ \E answer \in Answers : SyncRemoteToLocal(answer)
  \/ \E loggedIn \in BOOLEAN : SetUser(loggedIn)
  \/ \E sc \in serverCollections, collectionName \in {"C"}, t \in RemoteTimes,
        tq \in RemoteTimes :
       RemoteEdit(sc.id, collectionName, "q3", t, Len(sc.queries), tq)

SyncSpec == SyncInit /\ [][SyncNext]_vars

\* the service started on a table that holds one collection with two queries
SeedInit ==
  /\ queryCollections = {Seeded}
  /\ uuidCount = 0
  /\ moveCount = 0
  /\ now = 0
  /\ user = FALSE
  /\ serverCollections = {}
  /\ serverIdCount = 0
  /\ last = NoLast
  /\ prevCollections = queryCollections
  /\ tasks = NoTasks

SeedNext ==
  \/ \E localCollectionId \in Ids, answer \in Answers :
       /\ CreateRemoteCollection(localCollectionId, answer)
       /\ serverIdCount' <= MaxSeedServerIds
  \/ \E collectionId \in Ids, answer \in Answers :
       \E query \in StoredQueries(collectionId) :
          /\ UpdateQuery(collectionId, query.id, IQuery(NoString, "q2", NoString), answer)
          /\ serverIdCount' <= MaxSeedServerIds
  \/ \E collectionId \in Ids, answer \in Answers :
       \E query \in StoredQueries(collectionId) :
          DeleteQuery(collectionId, query, answer)
  \/ \E collectionId \in Ids, answer \in Answers :
       DeleteCollection(collectionId, answer)
  \/ \E answer \in Answers : SyncRemoteToLocal(answer)
  \/ \E loggedIn \in BOOLEAN : SetUser(loggedIn)
  \/ \E sc \in serverCollections, collectionName \in {"C"}, t \in RemoteTimes,
        tq \in RemoteTimes :
       \E edited \in 1..Len(sc.queries) \cup {Len(sc.queries)} :
          RemoteEdit(sc.id, collectionName, "q3", t, edited, tq)

SeedSpec == SeedInit /\ [][SeedNext]_vars

----------------------------------------------------------------------------
(* createRemoteCollection and syncRemoteToLocal step by step.  Each await
   on the table or on the remote service ends a step; other calls run between
   the steps.  Every request to the table is a transaction of its own. *)

\* the seeded collection after createRemoteCollection
SeededSynced ==
  [Seeded EXCEPT !.serverId = sid(1),
                 !.queries = WithServerIds(@, <<sid(2), sid(3)>>)]

\* its remote copy after another client renamed it past the tolerance
SeededRemote ==
  [id |-> sid(1), collectionName |-> "C", updatedAt |-> timestampDiffOffset + 1,
   queries |-> [i \in 1..Len(Seeded.queries) |->
                  ServerQuery(sid(1 + i), 0, Seeded.queries[i])]]

\* the service starts logged in, on a collection never pushed, on a pushed
\* collection whose remote copy is newer, or on an empty table with a remote
\* collection made elsewhere
AsyncInit ==
  /\ queryCollections \in {{Seeded}, {SeededSynced}, {}}
  /\ uuidCount = 0
  /\ moveCount = 0
  /\ now = 0
  /\ user = TRUE
  /\ serverCollections = IF queryCollections = {Seeded} THEN {} ELSE {SeededRemote}
  /\ serverIdCount = IF queryCollections = {Seeded} THEN 0 ELSE 3
  /\ last = NoLast
  /\ prevCollections = queryCollections
  /\ tasks = NoTasks

\* a call returns: what it did is recorded as the last operation
Returns(op, collectionId) ==
  /\ prevCollections' = queryCollections
  /\ last' = [NoLast EXCEPT !.op = op, !.cid = collectionId, !.auth = user,
                            !.missed = last.missed, !.created = last.created,
                            !.added = last.added]

\* createRemoteCollection up to the answer of api.createQueryCollection
CreateRemoteCall(slot, localCollectionId) ==
  LET collection == Stored(localCollectionId)
      api == ApiCreateQueryCollection(serverCollections, serverIdCount, now, collection, "ok")
  IN /\ tasks[slot] = Idle
     /\ canApplyRemote(user)
     /\ collection # NoCollection
     /\ serverIdCount + 1 + Len(collection.queries) <= MaxAsyncServerIds
     /\ serverCollections' = api.remote
     /\ serverIdCount' = api.sids
     /\ tasks' = [tasks EXCEPT ![slot] =
                    [Idle EXCEPT !.op = "createRemoteCollection", !.pc = "get",
                                 !.cid = localCollectionId, !.res = api.res]]
     /\ UNCHANGED <<queryCollections, uuidCount, moveCount, now, user, last, prevCollections>>

\* const localCollection = await this.mustGetLocalCollection(localCollectionId)
CreateRemoteGet(slot) ==
  LET localCollection == Stored(tasks[slot].cid)
  IN /\ tasks[slot].op = "createRemoteCollection"
     /\ tasks[slot].pc = "get"
     /\ localCollection # NoCollection
     /\ tasks' = [tasks EXCEPT ![slot].pc = "update",
                               ![slot].localCollection = localCollection]
     /\ UNCHANGED <<queryCollections, uuidCount, moveCount, now, user, serverCollections,
                    serverIdCount, last, prevCollections>>

\* return this.updateLocalCollection(localCollectionId, localCollection)
CreateRemoteUpdate(slot) ==
  LET task == tasks[slot]
      stamped == [task.localCollection EXCEPT
                    !.serverId = task.res.collectionId,
                    !.queries = WithServerIds(@, task.res.queryIds)]
  IN /\ task.op = "createRemoteCollection"
     /\ task.pc = "update"
     /\ queryCollections' = updateLocalCollection(queryCollections, now, task.cid, stamped)
     /\ tasks' = [tasks EXCEPT ![slot] = Idle]
     /\ Returns("createRemoteCollection", task.cid)
     /\ UNCHANGED <<uuidCount, moveCount, now, user, serverCollections, serverIdCount>>

\* syncRemoteToLocal up to the answer of api.getCollections
SyncFetch(slot) ==
  /\ tasks[slot] = Idle
  /\ canApplyRemote(user)
  /\ serverCollections # {}
  /\ tasks' = [tasks EXCEPT ![slot] =
                 [Idle EXCEPT !.op = "syncRemoteToLocal", !.pc = "getAll",
                              !.serverList = ApiGetCollections(serverCollections)]]
  /\ UNCHANGED <<queryCollections, uuidCount, moveCount, now, user, serverCollections,
                 serverIdCount, last, prevCollections>>

\* const localCollections = await this.getAll()
SyncGetAll(slot) ==
  /\ tasks[slot].op = "syncRemoteToLocal"
  /\ tasks[slot].pc = "getAll"
  /\ tasks' = [tasks EXCEPT ![slot].pc = "for",
                            ![slot].localCollections = getAll(queryCollections)]
  /\ UNCHANGED <<queryCollections, uuidCount, moveCount, now, user, serverCollections,
                 serverIdCount, last, prevCollections>>

\* one pass of the loop over the server's collections, matched against the
\* list read before the loop; the call returns after the last pass
SyncFor(slot) ==
  LET task == tasks[slot]
      synced == SyncAll(<<Head(task.serverList)>>, task.localCollections,
                        queryCollections, uuidCount, now)
  IN /\ task.op = "syncRemoteToLocal"
     /\ task.pc = "for"
     /\ synced.uuids <= MaxAsyncUuid
     /\ queryCollections' = synced.table
     /\ uuidCount' = synced.uuids
     /\ IF Len(task.serverList) = 1
        THEN /\ tasks' = [tasks EXCEPT ![slot] = Idle]
             /\ Returns("syncRemoteToLocal", NoId)
        ELSE /\ tasks' = [tasks EXCEPT ![slot].serverList = Tail(task.serverList)]
             /\ UNCHANGED <<last, prevCollections>>
     /\ UNCHANGED <<moveCount, now, user, serverCollections, serverIdCount>>

AsyncNext ==
  \/ \E slot \in 1..MaxTasks, localCollectionId \in Ids :
       CreateRemoteCall(slot, localCollectionId)
  \/ \E slot \in 1..MaxTasks : CreateRemoteGet(slot)
  \/ \E slot \in 1..MaxTasks : CreateRemoteUpdate(slot)
  \/ \E slot \in 1..MaxTasks : SyncFetch(slot)
  \/ \E slot \in 1..MaxTasks : SyncGetAll(slot)
  \/ \E slot \in 1..MaxTasks : SyncFor(slot)
  \/ \E collectionId \in Ids :
       /\ Finish(addQuery(queryCollections, uuidCount, now, user, serverCollections,
                          serverIdCount, collectionId,
                          IQuery(NoString, "q1", WindowName), "ok"),
                 [NoLast EXCEPT !.op = "addQuery", !.cid = collectionId,
                                !.query = IQuery(NoString, "q1", WindowName)])
       /\ uuidCount' <= MaxAsyncUuid
       /\ serverIdCount' <= MaxAsyncServerIds
  \/ \E collectionId \in Ids :
       /\ AllIdle
       /\ GetExportCollectionData(collectionId)
  \/ /\ last.op = "getExportCollectionData"
     /\ uuidCount + ImportUuids(last.doc) <= MaxAsyncUuid
     /\ ImportCollectionData(last.doc)

AsyncSpec == AsyncInit /\ [][AsyncNext]_vars

----------------------------------------------------------------------------
(* The tree the table encodes *)

\* the collection that getParentCollectionId(c) names, NoCollection at a root
ParentOf(table, c) == getParentCollection(table, c)

\* whether target is met when following parents from c for at most fuel steps
RECURSIVE LeadsTo(_, _, _, _)
LeadsTo(table, c, target, fuel) ==
  LET parent == ParentOf(table, c)
  IN IF parent = NoCollection \/ fuel = 0 THEN FALSE
     ELSE IF parent.id = target.id THEN TRUE
     ELSE LeadsTo(table, parent, target, fuel - 1)

\* the records below c
DescendantsOf(table, c) ==
  {d \in table : d.id # c.id /\ LeadsTo(table, d, c, Cardinality(table))}

RECURSIVE TreeIds(_)
RECURSIVE ForestIds(_)
TreeIds(tree) == {IdStr(tree.id)} \cup ForestIds(tree.collections)
ForestIds(trees) ==
  IF trees = <<>> THEN {} ELSE TreeIds(Head(trees)) \cup ForestIds(Tail(trees))

\* a tree without its ids: titles and nesting
RECURSIVE Shape(_)
Shape(tree) ==
  [title |-> tree.title,
   collections |-> [i \in 1..Len(tree.collections) |-> Shape(tree.collections[i])]]

----------------------------------------------------------------------------
(* Claims *)

MovedCollection == getCollectionByID(prevCollections, last.cid)
NewParent == getCollectionByID(prevCollections, last.pid)
DidMove == last.op = "moveCollection" /\ ~last.rejected

\* the new parent is neither the moved collection nor below it
MovedAside ==
  /\ NewParent # MovedCollection
  /\ NewParent \notin DescendantsOf(prevCollections, MovedCollection)

\* C1: moveCollection(C, P) rewrites the parentPath of C and of C's descendants
\* only, replacing C's old parentPath prefix by P.parentPath + '/' + P.id; every
\* other record keeps its parentPath.
C1_MoveRewritesOnlySubtree ==
  DidMove /\ MovedAside =>
    \A r \in prevCollections :
      LET after == TableGet(queryCollections, r.id)
          oldPrefix == PathOrEmpty(MovedCollection)
          newPrefix == PathOrEmpty(NewParent) \o COLLECTION_PATH_SEPARATOR
                         \o IdStr(NewParent.id)
      IN IF r = MovedCollection \/ r \in DescendantsOf(prevCollections, MovedCollection)
         THEN after.parentPath
                = newPrefix \o SubSeq(r.parentPath, Len(oldPrefix) + 1, Len(r.parentPath))
         ELSE after.parentPath = r.parentPath

\* C2: in every reachable state, following getParentCollectionId from a stored
\* collection never leads back to that collection.
C2_NoCycle ==
  \A c \in queryCollections : ~LeadsTo(queryCollections, c, c, Cardinality(queryCollections))

DidImport == last.op = "importCollectionData" /\ ~last.rejected
Imported == queryCollections \ prevCollections

\* C3: after importData of a valid document the store holds one new collection
\* per node of the document, with ids that are not the document's, and building
\* trees from the new records reproduces the document's tree shape.
C3_ImportKeepsTreeShape ==
  DidImport =>
    /\ prevCollections \subseteq queryCollections
    /\ Cardinality(Imported) = TreeSize(last.doc.tree)
    /\ {IdStr(c.id) : c \in Imported} \cap TreeIds(last.doc.tree) = {}
    /\ LET trees == getCollectionTrees(ToArrayByKey(Imported))
       IN [i \in 1..Len(trees) |-> Shape(trees[i])] = <<Shape(last.doc.tree)>>

DidExport == last.op = "getExportCollectionData" /\ ~last.rejected
Exported == getCollectionByID(queryCollections, last.cid)

\* C4: getExportCollectionData(C.id) of a stored collection C, root or nested,
\* returns { version: 1, type: 'collection', ...tree } whose root carries C's id,
\* title and queries and whose nested collections are exactly C's descendants.
C4_ExportIsSubtree ==
  DidExport =>
    /\ last.doc.version = 1
    /\ last.doc.type = "collection"
    /\ last.doc.tree.id = StrId(IdStr(Exported.id))
    /\ last.doc.tree.title = Exported.title
    /\ last.doc.tree.queries = Exported.queries
    /\ ForestIds(last.doc.tree.collections)
         = {IdStr(d.id) : d \in DescendantsOf(queryCollections, Exported)}

----------------------------------------------------------------------------
(* Claims about the remote service *)

PrevStored(collectionId) == getCollectionByID(prevCollections, collectionId)

DidSync == last.op = "syncRemoteToLocal"

\* C5: during syncRemoteToLocal a local collection matched by serverId whose
\* remote updatedAt is at most its updated_at plus 120000 ms (exactly two
\* minutes later included) is left unchanged in every field.
C5_SyncKeepsWithinTolerance ==
  DidSync =>
    \A c \in prevCollections, sc \in serverCollections :
       /\ c.serverId # NoServerId
       /\ c.serverId = sc.id
       /\ sc.updatedAt <= c.updated_at + 120000
       => c \in queryCollections

\* a sync that fetched a renamed remote collection stamped exactly at the tolerance
C5_Witness ==
  /\ DidSync /\ last.auth /\ last.answer = "ok" /\ last.calls # <<>>
  /\ \E c \in prevCollections, sc \in serverCollections :
        /\ c.serverId = sc.id
        /\ sc.updatedAt = c.updated_at + 120000
        /\ sc.collectionName # c.title
        /\ sc.queries # <<>>
        /\ c \in queryCollections

\* C6: once a stored collection has a serverId, every later state in which the
\* collection still exists shows the same serverId (stated over each step).
C6_SyncedStaysSynced ==
  \A c \in prevCollections, d \in queryCollections :
     c.serverId # NoServerId /\ d.id = c.id => d.serverId = c.serverId

PublicOps ==
  {"create", "createRemoteCollection", "addQuery", "updateQuery", "deleteQuery",
   "updateCollection", "updateRemoteCollection", "deleteCollection",
   "syncRemoteToLocal", "importCollectionData"}

HasQuery(collection, queryId) ==
  \E i \in 1..Len(collection.queries) : collection.queries[i].id = queryId

\* the local write the last operation owes the table
LocalWriteDone ==
  LET before == PrevStored(last.cid)
      after == Stored(last.cid)
  IN CASE last.op = "create" ->
            \E c \in queryCollections \ prevCollections :
               /\ c.id = last.ret
               /\ c.title = last.data.title
               /\ Len(c.queries) = Len(last.data.queries)
               /\ queryCollections = prevCollections \cup {c}
       [] last.op = "addQuery" ->
            /\ Len(after.queries) = Len(before.queries) + 1
            /\ after.queries[Len(after.queries)].content = last.query.content
       [] last.op = "updateQuery" ->
            \E i \in 1..Len(after.queries) :
               /\ after.queries[i].id = last.query.id
               /\ after.queries[i].content = last.query.content
       [] last.op = "deleteQuery" ->
            /\ last.query.id # NoString => ~HasQuery(after, last.query.id)
            /\ last.query.id = NoString =>
                 \A i \in 1..Len(after.queries) :
                    after.queries[i].windowName # last.query.windowName
            /\ Len(after.queries) <= Len(before.queries)
       [] last.op = "updateCollection" ->
            /\ after.title = last.data.title
            /\ after.queries = last.data.queries
       [] last.op = "deleteCollection" ->
            /\ before # NoCollection
            /\ after = NoCollection
       [] last.op = "importCollectionData" ->
            Cardinality(queryCollections)
              = Cardinality(prevCollections) + TreeSize(last.doc.tree)
       [] OTHER -> queryCollections = prevCollections

\* C7: while getUser() returns empty, no public operation calls the remote
\* API, and the local write of the operation is still performed.
C7_NoRemoteCallWhenLoggedOut ==
  last.op \in PublicOps /\ ~last.auth =>
    /\ last.calls = <<>>
    /\ ~last.rejected
    /\ LocalWriteDone

\* a synced collection deleted while logged out
C7_Witness ==
  /\ last.op = "deleteCollection" /\ ~last.auth
  /\ PrevStored(last.cid).serverId # NoServerId
  /\ Stored(last.cid) = NoCollection

GuardedApis == {"createQueries", "updateQuery", "deleteQuery", "updateCollection",
                "deleteCollection"}

\* C8: no createQueries, updateQuery, deleteQuery, updateCollection or
\* deleteCollection call is issued for a local collection that has no serverId
\* at the time of the call.
C8_RemoteCallsOnlyForSynced ==
  \A i \in 1..Len(last.calls) :
     last.calls[i].api \in GuardedApis => last.calls[i].synced

\* C9: after addQuery on a synced collection while authenticated, with at
\* least one server id returned, the query just added carries that server id.
C9_AddedQueryCarriesServerId ==
  /\ last.op = "addQuery" /\ last.auth /\ ~last.rejected
  /\ last.calls # <<>> /\ last.calls[1].ret # <<>>
  => LET queries == Stored(last.cid).queries
     IN queries[Len(queries)].serverId = last.calls[1].ret[1]

DidCreateRemote == last.op = "createRemoteCollection"

\* C10: a successful createRemoteCollection stamps the returned collectionId
\* on the stored collection and queryIds[i] on the stored query at position i;
\* logged out it changes nothing; with no result it rejects and the stored
\* collection is unchanged.
C10_CreateRemoteStampsServerIds ==
  DidCreateRemote =>
    LET before == PrevStored(last.cid)
        after == Stored(last.cid)
    IN /\ ~last.auth =>
            /\ queryCollections = prevCollections
            /\ last.calls = <<>>
            /\ ~last.rejected
       /\ last.auth /\ last.answer = "ok" =>
            LET ret == last.calls[1].ret
            IN /\ ~last.rejected
               /\ Len(ret) = 1 + Len(before.queries)
               /\ after.serverId = ret[1]
               /\ after.serverId # NoServerId
               /\ Len(after.queries) = Len(before.queries)
               /\ \A i \in 1..Len(after.queries) :
                     after.queries[i] = [before.queries[i] EXCEPT !.serverId = ret[i + 1]]
       /\ last.auth /\ last.answer # "ok" =>
            /\ last.rejected
            /\ queryCollections = prevCollections

\* a collection with two queries was pushed and both queries were stamped
C10_Witness ==
  /\ DidCreateRemote /\ last.auth /\ last.answer = "ok" /\ ~last.rejected
  /\ Len(Stored(last.cid).queries) = 2
  /\ Stored(last.cid).queries[1].serverId # Stored(last.cid).queries[2].serverId
  /\ Stored(last.cid).queries[2].serverId # NoServerId

----------------------------------------------------------------------------
(* Claims about create, lookup and delete *)

\* id names record c: it is c's key, or the other representation of c's key
Denotes(id, c) ==
  \/ c.id = id
  \/ c.id.num /\ ~id.num /\ NumberOf(id.s) = c.id.s
  \/ ~c.id.num /\ id.num /\ c.id.s = id.s

Denoted(table, id) ==
  IF \E c \in table : Denotes(id, c) THEN CHOOSE c \in table : Denotes(id, c)
  ELSE NoCollection

DidCreate == last.op = "create"

\* C11: create stores exactly one new record with a fresh id; under an existing
\* parent its parentPath is the parent's parentPath + '/' + the parent's id,
\* without a parent it is ''; every record stored before is unchanged.
C11_CreatePlacesUnderParent ==
  DidCreate =>
    \E c \in queryCollections :
       /\ c \notin prevCollections
       /\ queryCollections = prevCollections \cup {c}
       /\ c.id = last.ret
       /\ \A d \in prevCollections : IdStr(d.id) # IdStr(c.id)
       /\ c.parentPath =
            IF last.pid = NoId THEN <<>>
            ELSE LET parent == Denoted(prevCollections, last.pid)
                 IN parent.parentPath \o <<"/">> \o IdStr(parent.id)

\* a collection created under a parent that is itself nested
C11_Witness ==
  /\ DidCreate /\ last.pid # NoId
  /\ Denoted(prevCollections, last.pid).parentPath # <<>>
  /\ Stored(last.ret) # NoCollection

----------------------------------------------------------------------------
(* Claims about the tree builder and import *)

\* the list getCollectionTreeByCollectionId hands to getCollectionTrees
ExportList == <<Exported>> \o getSubcollections(queryCollections, last.cid, TRUE)

IdsOfList(list) == {IdStr(list[i].id) : i \in 1..Len(list)}

\* a collection the claim expects among the roots: no parentPath, or a parent
\* that is not in the list
ExpectedRoot(list, c) ==
  \/ IsTreeRoot(c)
  \/ getParentCollectionId(c) \notin IdsOfList(list)

\* C13: getCollectionTrees(list) places every input collection exactly once in
\* the forest; a collection with empty parentPath or with a parent absent from
\* the list is a root, and the roots come in input order.
C13_TreesPlaceEveryCollection ==
  DidExport =>
    LET forest == getCollectionTrees(ExportList)
        roots == SelectSeq(ExportList, LAMBDA c : ExpectedRoot(ExportList, c))
    IN /\ ForestIds(forest) = IdsOfList(ExportList)
       /\ ForestSize(forest) = Len(ExportList)
       /\ [i \in 1..Len(forest) |-> IdStr(forest[i].id)]
            = [i \in 1..Len(roots) |-> IdStr(roots[i].id)]

ImportOps == {"importCollectionData", "importCollectionDataFromJson", "handleImportedFile"}

\* the last import could not be done: no text, no JSON, or no valid document
ImportFailed ==
  \/ last.text \in {"empty", "broken", "unreadable"}
  \/ ~(last.doc.version = 1 /\ last.doc.type = "collection")

\* C14: every import entry point reports an import failure to its caller as a
\* rejected operation: an empty payload, a payload that is not JSON, or one
\* that is not a valid collection document never resolves normally.
C14_ImportFailuresReject ==
  last.op \in ImportOps /\ ImportFailed => last.rejected

\* C15: importCollectionData accepts a document only if its version is 1 and
\* its type is 'collection'; any other document makes it throw and leaves the
\* store unchanged.
C15_ImportChecksVersionAndType ==
  last.op = "importCollectionData"
    /\ ~(last.doc.version = 1 /\ last.doc.type = "collection")
  => last.rejected /\ queryCollections = prevCollections

\* seg is one of the ids in path
HasSegment(path, seg) ==
  /\ path # NoPath
  /\ \E i \in 1..Len(path) :
        /\ <<path[i]>> = COLLECTION_PATH_SEPARATOR
        /\ i + Len(seg) <= Len(path)
        /\ SubSeq(path, i + 1, i + Len(seg)) = seg
        /\ \/ i + Len(seg) = Len(path)
           \/ <<path[i + Len(seg) + 1]>> = COLLECTION_PATH_SEPARATOR

\* C16: after deleteCollection(id) of a stored collection the store holds
\* neither that collection nor any record whose parentPath has id as a segment.
C16_DeleteLeavesNoOrphan ==
  /\ last.op = "deleteCollection" /\ ~last.rejected
  /\ Denoted(prevCollections, last.cid) # NoCollection
  => /\ Denoted(queryCollections, last.cid) = NoCollection
     /\ \A d \in queryCollections :
           ~HasSegment(d.parentPath, IdStr(Denoted(prevCollections, last.cid).id))

----------------------------------------------------------------------------
(* Claims about reconciliation *)

\* the remote collection a local one is synced with
ServerOf(c) ==
  IF \E sc \in serverCollections : sc.id = c.serverId
  THEN CHOOSE sc \in serverCollections : sc.id = c.serverId
  ELSE [id |-> NoServerId, collectionName |-> "", updatedAt |-> NoTime, queries |-> <<>>]

ContentsOf(queries) == [i \in 1..Len(queries) |-> queries[i].content]
ServerContentsOf(sc) == [i \in 1..Len(sc.queries) |-> sc.queries[i].content.content]

SyncedOk == DidSync /\ last.auth /\ last.answer = "ok" /\ ~last.rejected

\* C17: when a write to a synced collection was committed locally and not
\* remotely, then after a later syncRemoteToLocal made while authenticated the
\* remote service and the store agree on the collection's title and queries.
C17_SyncReconciles ==
  SyncedOk =>
    \A id \in last.missed :
       LET c == Stored(id)
       IN c # NoCollection /\ c.serverId # NoServerId /\ ServerOf(c).id = c.serverId
          => /\ c.title = ServerOf(c).collectionName
             /\ ContentsOf(c.queries) = ServerContentsOf(ServerOf(c))

\* the collection-level decision: remote wins for stored collection c
RemoteWins(c) ==
  /\ c.serverId # NoServerId
  /\ ServerOf(c).id = c.serverId
  /\ c.updated_at # NoTime
  /\ ServerOf(c).updatedAt > c.updated_at + 120000
  /\ \A d \in prevCollections : d.serverId = c.serverId => d = c

\* C18: whenever syncRemoteToLocal decides remote-wins for a matched
\* collection, the stored title afterwards is the remote collectionName, also
\* for a remote collection without queries.
C18_RemoteWinsAdoptsTitle ==
  SyncedOk =>
    \A c \in prevCollections :
       RemoteWins(c) => Stored(c.id).title = ServerOf(c).collectionName

\* the remote query a local query is synced with, by position, 0 for none
ServerQueryOf(sc, query) ==
  LET hits == {j \in 1..Len(sc.queries) : sc.queries[j].id = query.serverId}
  IN IF hits = {} THEN 0 ELSE CHOOSE j \in hits : TRUE

\* the query-level decision
QueryRemoteWins(sc, query) ==
  /\ ServerQueryOf(sc, query) # 0
  /\ query.updated_at # NoTime
  /\ sc.queries[ServerQueryOf(sc, query)].updatedAt > query.updated_at + 120000

\* C19: on a collection-level remote-wins each local query is decided on its
\* own: it is overwritten with the remote content exactly if its serverId
\* matches a remote query stamped more than 120000 ms after its updated_at;
\* every other query is kept, and the number and order of queries stay.
C19_QueriesDecidedIndependently ==
  SyncedOk =>
    \A c \in prevCollections :
       RemoteWins(c) =>
         LET after == Stored(c.id).queries
             sc == ServerOf(c)
         IN /\ Len(after) = Len(c.queries)
            /\ \A i \in 1..Len(after) :
                  IF QueryRemoteWins(sc, c.queries[i])
                  THEN LET serverQuery == sc.queries[ServerQueryOf(sc, c.queries[i])]
                       IN /\ after[i].content = serverQuery.content.content
                          /\ after[i].serverId = serverQuery.id
                  ELSE after[i] = c.queries[i]

\* remote wins for a collection with two synced queries: the first is newer
\* beyond the tolerance and overwritten, the second is not and kept
C19_Witness ==
  /\ SyncedOk
  /\ \E c \in prevCollections :
        /\ RemoteWins(c)
        /\ Len(c.queries) = 2
        /\ QueryRemoteWins(ServerOf(c), c.queries[1])
        /\ ServerQueryOf(ServerOf(c), c.queries[2]) # 0
        /\ ~QueryRemoteWins(ServerOf(c), c.queries[2])
        /\ Stored(c.id).queries[1].content # c.queries[1].content
        /\ Stored(c.id).queries[2] = c.queries[2]

\* the remote call of the last operation failed
RemoteFailed ==
  /\ last.calls # <<>>
  /\ \/ last.answer = "throw"
     \/ last.calls[1].api = "createQueries" /\ last.calls[1].ret = <<>>

\* C20: when the remote call of addQuery, updateQuery, deleteQuery,
\* updateCollection or deleteCollection fails, or createQueries returns no id,
\* the operation rejects and the local write it made stays in the store.
C20_LocalWriteSurvivesRemoteFailure ==
  last.op \in MirroredOps \cup {"deleteCollection"} /\ RemoteFailed =>
    /\ last.rejected
    /\ LocalWriteDone

\* a synced collection was deleted locally although the remote delete threw
C20_Witness ==
  /\ last.op = "deleteCollection" /\ RemoteFailed /\ last.rejected
  /\ PrevStored(last.cid) # NoCollection
  /\ Stored(last.cid) = NoCollection

----------------------------------------------------------------------------
(* Claims about repeated remote creation and termination *)

Occurrences(log, x) == Cardinality({i \in 1..Len(log) : log[i] = x})

IssuedCreateQueries == \E i \in 1..Len(last.calls) : last.calls[i].api = "createQueries"

\* C22: each local query is created on the remote service at most once: after
\* a successful remote create for a query, later updateQuery calls on it never
\* issue another createQueries call.
C22_QueryCreatedOnce ==
  /\ \A i \in 1..Len(last.created) : Occurrences(last.created, last.created[i]) <= 1
  /\ last.op = "updateQuery" /\ IssuedCreateQueries /\ last.rejected
     => Occurrences(last.created, last.query.id) = 0

\* C24: getAllParentCollections(collection) terminates for every stored
\* collection, returning the chain from the immediate parent up to the root
\* or the first missing ancestor.
C24_ParentChainTerminates ==
  last.op = "getAllParentCollections" =>
    /\ last.returned
    /\ \A i \in 1..Len(last.parents) :
          LET child == IF i = 1 THEN Stored(last.cid) ELSE Stored(last.parents[i - 1])
          IN Stored(last.parents[i]) = getParentCollection(queryCollections, child)
    /\ LET top == IF last.parents = <<>> THEN Stored(last.cid)
                  ELSE Stored(last.parents[Len(last.parents)])
       IN getParentCollection(queryCollections, top) = NoCollection

----------------------------------------------------------------------------
(* Claims about calls that interleave *)

\* C21: no two stored collections have the same serverId: each remote
\* collection is mirrored by at most one local collection.
C21_OneLocalPerRemote ==
  \A c \in queryCollections, d \in queryCollections :
     c.serverId # NoServerId /\ c.serverId = d.serverId => c = d

\* C23: no local write is lost when calls on a collection interleave: once
\* every call has returned, a query that addQuery added while
\* createRemoteCollection or syncRemoteToLocal was in flight is still stored.
C23_NoLostWrite ==
  AllIdle =>
    \A pair \in last.added :
       Stored(pair[1]) # NoCollection => HasQuery(Stored(pair[1]), pair[2])

====
